---- MODULE Spec2Model ----
(***************************************************************************)
(* Model of the ThreeScene effect of jasonygodfrey/flora: the render loop, *)
(* the device-orientation permission handshake, the effect cleanup, the    *)
(* bass detector, the particle-grid fill loop and the vertex shader's      *)
(* displacement.  The repository holds three revisions of the component    *)
(* (src/src/ThreeScene.js, src/unnamed/part_000, src/unnamed/part_001);    *)
(* the variable "variant" selects which file's code a behaviour runs.      *)
(*                                                                         *)
(* JavaScript is single-threaded: every handler runs to completion, so     *)
(* each handler is one action.  The only split is the await inside         *)
(* requestOrientationPermission: the part before it is the action          *)
(* requestOrientationPermission, the continuation is permissionResponse.   *)
(*                                                                         *)
(* Numbers that are fractions in the code are kept exact as pairs          *)
(* <<numerator, denominator>>.                                             *)
(***************************************************************************)
EXTENDS Integers, Sequences, FiniteSets, TLC

(* ------------------------------ bounds --------------------------------- *)
\* clicks on the enable-gyroscope button (and mount-time requests) modelled
MaxClicks == 2
\* invocations of the effect-cleanup function modelled
MaxCleanupCalls == 2
\* half of the grid side, drawn from 1..MaxHalf (the code's half is 240)
MaxHalf == 3
\* the colour channels are drawn in steps of 1/ChannelSteps
ChannelSteps == 10

\* cells per side by which part_001's particleCount (1480 * 1480) exceeds its
\* 480 x 480 loops, scaled down with the grid (1000 in the code)
ExcessSide == 1

(* -------------------------- program constants -------------------------- *)
bassRange == 3
bassNorm == 155
\* luminanceThreshold = 0.1, kept as the fraction 1/10
luminanceThresholdNum == 1
luminanceThresholdDen == 10
Variants == {"ThreeScene", "part_000", "part_001"}
\* "explicit": DeviceOrientationEvent.requestPermission is a function (iOS 13+)
\* "implicit": DeviceOrientationEvent exists, without requestPermission
\* "absent"  : the global DeviceOrientationEvent is not defined
Platforms == {"explicit", "implicit", "absent"}
Responses == {"granted", "denied", "reject"}

\* byte magnitudes the analyser may report for a bin (Uint8Array: 0..255)
BinValues == {0, 60, 90, 120, 255}
\* the snapshots used while the whole scene runs
SceneSnapshots == {<<0, 0, 0>>, <<90, 120, 60>>}
\* every snapshot of the first bassRange bins over BinValues
AllSnapshots == [1..bassRange -> BinValues]

\* a nullable number is <<>> (null) or <<n>>
NullSample == [alpha |-> <<>>, beta |-> <<>>, gamma |-> <<>>]
RealSample == [alpha |-> <<90>>, beta |-> <<45>>, gamma |-> <<10>>]
Samples == {NullSample, RealSample}
NoSample == [alpha |-> <<0>>, beta |-> <<0>>, gamma |-> <<0>>]

VARIABLES
    variant,              \* which source file runs
    platform,             \* the browser's orientation API
    clicks,               \* requestOrientationPermission calls so far
    pending,              \* permission requests awaiting the platform
    deviceControls,       \* 0 = undefined, else id of the current controller
    nCreated,             \* DeviceOrientationControls constructed so far
    connected,            \* ids of controllers whose listeners are on window
    orientationListener,  \* handleOrientation registered on window (capture)
    deviceOrientation,    \* <<>> = null, else <<sample>>
    controlsEnabled,      \* controls.enabled
    sphericalDelta,       \* OrbitControls' accumulated, damped drag
    cameraRotation,       \* <<>> = set by OrbitControls, else degrees x,y,z
    alerts,               \* alert() calls
    consoleErrors,        \* console.error() calls
    unhandledRejections,  \* promises rejected with nobody catching
    lastAlerts,           \* alert() calls made by the last handler
    tickTrace,            \* the steps of the last animate() call, in order
    rafScheduled,         \* an animation frame callback is queued
    frequencyData,        \* the first bins of the last analyser snapshot
    bassStrength,         \* <<num, den>>
    uniformBass,          \* material.uniforms.bassStrength.value
    cleanupCalls,         \* invocations of the cleanup function
    cleanupThrew,         \* an invocation of cleanup threw
    resizeListener,       \* onWindowResize registered on window
    buttonListener,       \* click listener registered on the button
    domAttached,          \* renderer.domElement is a child of container
    removeChildCalls,     \* container.removeChild calls
    audioCloseCalls,      \* audioCtx.close calls
    controlsDisposeCalls, \* controls.dispose calls
    deviceDisposeCalls,   \* deviceControls.dispose calls
    lastAction,           \* the handler that ran last
    media,                \* the video and audio elements' playback
    grid,                 \* the particle-grid fill loop's state
    shader                \* one vertex shader invocation

sceneVars == <<variant, platform, clicks, pending, deviceControls, nCreated,
               connected, orientationListener, deviceOrientation,
               controlsEnabled, sphericalDelta, cameraRotation, alerts,
               consoleErrors, unhandledRejections, lastAlerts, tickTrace,
               rafScheduled, frequencyData, bassStrength, uniformBass,
               cleanupCalls, cleanupThrew, resizeListener, buttonListener,
               domAttached, removeChildCalls, audioCloseCalls,
               controlsDisposeCalls, deviceDisposeCalls, lastAction,
               media>>
vars == <<sceneVars, grid, shader>>

(* ------------------------------ fractions ------------------------------ *)
\* fractions are kept in lowest terms, with a positive denominator
RECURSIVE GCD(_, _)
GCD(m, n) == IF n = 0 THEN m ELSE GCD(n, m % n)
Reduce(a) == LET d == GCD(a[1], a[2]) IN <<a[1] \div d, a[2] \div d>>
FracEq(a, b) == a[1] * b[2] = b[1] * a[2]
FracLt(a, b) == a[1] * b[2] < b[1] * a[2]
FracDiv(a, n) == Reduce(<<a[1], a[2] * n>>)

(* --------------------------- FrequencyAnalyzer ------------------------- *)
\* the loop "for (i = 0; i < bassRange; i++) bassTotal += frequencyData[i]"
\* after n iterations, bassTotal starting at 0
RECURSIVE bassTotal(_, _)
bassTotal(fd, n) == IF n = 0 THEN 0 ELSE bassTotal(fd, n - 1) + fd[n]

\* a detector whose loop stops one bin early
detectBassShort(fd) ==
    FracDiv(FracDiv(<<bassTotal(fd, bassRange - 1), 1>>, bassRange), bassNorm)

\* bassStrength = bassTotal / bassRange / 155
detectBass(fd) ==
    FracDiv(FracDiv(<<bassTotal(fd, bassRange), 1>>, bassRange), bassNorm)

(* ----------------------------- ParticleField --------------------------- *)
\* particleCount for a grid of the given side: side * side where the code
\* has 480 * 480; part_001 has 1480 * 1480 beside the same 480 loops
particleCount(v, side) ==
    IF v = "part_001" THEN (side + ExcessSide) * (side + ExcessSide)
                      ELSE side * side

\* the state before the fill loop: new Float32Array(n) is all zeros
NewGrid(v, half) ==
    [half |-> half,
     side |-> 2 * half,
     particleCount |-> particleCount(v, 2 * half),
     positions |-> [n \in 0..(particleCount(v, 2 * half) * 3 - 1) |-> 0],
     uvs |-> [n \in 0..(particleCount(v, 2 * half) * 2 - 1) |-> <<0, 1>>],
     index |-> 0, i |-> 0, j |-> 0]

\* no grid under construction
NoGrid == [half |-> 0, side |-> 0, particleCount |-> 0, positions |-> <<>>,
           uvs |-> <<>>, index |-> 0, i |-> 0, j |-> 0]

\* a store into a typed array; stores past its end are dropped
Store(arr, n, x) == IF n \in DOMAIN arr THEN [arr EXCEPT ![n] = x] ELSE arr

(* --------------------------- DisplacementShader ------------------------ *)
FracMul(a, b) == Reduce(<<a[1] * b[1], a[2] * b[2]>>)
FracAdd(a, b) == Reduce(<<a[1] * b[2] + b[1] * a[2], a[2] * b[2]>>)
luminanceThreshold == <<luminanceThresholdNum, luminanceThresholdDen>>

\* luminance = (color.r + color.g + color.b) / 3.0
luminance(r, g, b) == FracDiv(<<r + g + b, ChannelSteps>>, 3)

\* a shader that also displaces at the threshold itself
displacementAtThreshold(lum, bass) ==
    IF ~FracLt(lum, luminanceThreshold)
      THEN FracMul(lum, FracAdd(<<100, 1>>, FracMul(bass, <<200, 1>>)))
      ELSE <<0, 1>>

\* luminance > 0.1 ? luminance * (100.0 + bassStrength * 200.0) : 0.0
displacement(lum, bass) ==
    IF FracLt(luminanceThreshold, lum)
      THEN FracMul(lum, FracAdd(<<100, 1>>, FracMul(bass, <<200, 1>>)))
      ELSE <<0, 1>>

NoShader == [done |-> FALSE, r |-> 0, g |-> 0, b |-> 0, bass |-> <<0, 1>>,
             displacement |-> <<0, 1>>]

(* ------------------------------ variables ------------------------------ *)
platformVars == <<variant, platform>>
orientVars == <<deviceControls, nCreated, connected, orientationListener,
                deviceOrientation>>
audioVars == <<frequencyData, bassStrength, uniformBass>>
logVars == <<consoleErrors, unhandledRejections>>
loopVars == <<tickTrace, rafScheduled>>
teardownVars == <<cleanupCalls, cleanupThrew, resizeListener, buttonListener,
                  domAttached, removeChildCalls, audioCloseCalls,
                  controlsDisposeCalls, deviceDisposeCalls>>
pureVars == <<grid, shader>>

\* the value "x || 0" of a nullable number
OrZero(n) == IF n = <<>> THEN 0 ELSE n[1]

(* ------------------------------ RenderLoop ----------------------------- *)
\* a loop that reschedules itself only after rendering
AnimateStepsRescheduleLast(v, dc, dor) ==
    <<"detectBass", "uniform",
      IF dc # 0 THEN "deviceControls.update" ELSE "controls.update",
      "composer.render", "requestAnimationFrame">>

\* the steps one call of animate() performs, in order
AnimateSteps(v, dc, dor) ==
    CASE v = "ThreeScene" ->
           <<"requestAnimationFrame", "detectBass", "uniform",
             IF dc # 0 THEN "deviceControls.update" ELSE "controls.update",
             "composer.render">>
      [] v = "part_000" ->
           <<"requestAnimationFrame", "detectBass", "uniform",
             IF dor # <<>> THEN "camera.quaternion" ELSE "controls.update",
             "composer.render">>
      [] v = "part_001" ->
           <<"requestAnimationFrame", "controls.update", "detectBass",
             "uniform", "composer.render">>

\* the camera after the tick's camera step
AnimateCamera(v, dc, conn, dor, rot) ==
    CASE v = "ThreeScene" /\ dc # 0 ->
           \* deviceControls.update(): nothing once disconnected
           IF dc \in conn
             THEN LET s == IF dor = <<>> THEN NoSample ELSE dor[1]
                  IN  <<OrZero(s.beta), OrZero(s.alpha), 0 - OrZero(s.gamma)>>
             ELSE rot
      [] v = "part_000" /\ dor # <<>> ->
           <<OrZero(dor[1].beta), OrZero(dor[1].alpha),
             0 - OrZero(dor[1].gamma)>>
      [] OTHER -> <<>>   \* controls.update() points the camera at the target

\* whether the tick calls controls.update()
AnimateUsesOrbit(v, dc, dor) ==
    \/ v = "part_001"
    \/ v = "ThreeScene" /\ dc = 0
    \/ v = "part_000" /\ dor = <<>>

\* video.play() and audio.play() while mounting: where the autoplay policy
\* blocks the start, the promise play() returns rejects and nobody handles
\* it; no other code calls play()
MountMedia(blocked) ==
    [blocked |-> blocked,
     playCalls |-> 2,
     playRejections |-> IF blocked THEN 2 ELSE 0,
     playing |-> ~blocked]

\* the first tick, which the effect runs synchronously while mounting
MountTrace(v) == AnimateSteps(v, 0, <<>>)

SceneInit ==
    /\ variant \in Variants
    /\ platform \in Platforms
    /\ deviceControls = 0
    /\ nCreated = 0
    /\ connected = {}
    /\ deviceOrientation = <<>>
    /\ controlsEnabled = TRUE
    /\ sphericalDelta = 0
    /\ cameraRotation = <<>>
    /\ alerts = 0
    /\ consoleErrors = 0
    /\ lastAlerts = 0
    /\ tickTrace = MountTrace(variant)
    /\ rafScheduled = TRUE
    /\ frequencyData = <<0, 0, 0>>
    /\ bassStrength = detectBass(<<0, 0, 0>>)
    /\ uniformBass = detectBass(<<0, 0, 0>>)
    /\ cleanupCalls = 0
    /\ cleanupThrew = FALSE
    /\ resizeListener = TRUE
    /\ domAttached = TRUE
    /\ removeChildCalls = 0
    /\ audioCloseCalls = 0
    /\ controlsDisposeCalls = 0
    /\ deviceDisposeCalls = 0
    /\ lastAction = "mount"
    /\ \E blocked \in BOOLEAN : media = MountMedia(blocked)
    \* part_001 has no button: it calls requestOrientationPermission() once
    \* while mounting
    /\ buttonListener = (variant # "part_001")
    /\ clicks = IF variant = "part_001" THEN 1 ELSE 0
    /\ pending = IF variant = "part_001" /\ platform = "explicit" THEN 1 ELSE 0
    /\ orientationListener = (variant = "part_001" /\ platform = "implicit")
    /\ unhandledRejections =
          IF variant = "part_001" /\ platform = "absent" THEN 1 ELSE 0

\* a loop whose body waits for the permission answer
particlesUnlessPending == pending = 0

\* "if (particles)": particles is assigned while mounting and never cleared
particles == TRUE

\* animate(): one tick, reading the snapshot fd from the analyser
animate(fd) ==
    /\ rafScheduled
    /\ rafScheduled' = TRUE
    /\ IF particles
         THEN /\ tickTrace' = AnimateSteps(variant, deviceControls,
                                           deviceOrientation)
              /\ frequencyData' = fd
              /\ bassStrength' = detectBass(fd)
              /\ uniformBass' = detectBass(fd)
              /\ cameraRotation' =
                    AnimateCamera(variant, deviceControls, connected,
                                  deviceOrientation, cameraRotation)
              /\ sphericalDelta' =
                    IF AnimateUsesOrbit(variant, deviceControls,
                                        deviceOrientation)
                         /\ sphericalDelta > 0
                      THEN sphericalDelta - 1 ELSE sphericalDelta
         ELSE /\ tickTrace' = <<"requestAnimationFrame">>
              /\ UNCHANGED <<audioVars, cameraRotation, sphericalDelta>>
    /\ lastAlerts' = 0
    /\ lastAction' = "animate"
    /\ UNCHANGED <<platformVars, media, clicks, pending, orientVars, controlsEnabled,
                   alerts, logVars, teardownVars, pureVars>>

(* --------------------------- CameraController -------------------------- *)
\* enableDeviceOrientationControls()
enableDeviceOrientationControls ==
    IF platform # "absent"
      THEN /\ nCreated' = nCreated + 1
           /\ deviceControls' = nCreated + 1
           /\ connected' = connected \cup {nCreated + 1}
           /\ deviceOrientation' = <<>>
           /\ controlsEnabled' = FALSE
           /\ alerts' = alerts
           /\ lastAlerts' = 0
      ELSE /\ alerts' = alerts + 1
           /\ lastAlerts' = 1
           /\ UNCHANGED <<nCreated, deviceControls, connected,
                          deviceOrientation, controlsEnabled>>

\* window.addEventListener('deviceorientation', handleOrientation, true),
\* followed in part_000 by controls.enabled = false
addOrientationListener ==
    /\ orientationListener' = TRUE
    /\ controlsEnabled' = IF variant = "part_000" THEN FALSE ELSE controlsEnabled
    /\ lastAlerts' = 0
    /\ UNCHANGED <<alerts, nCreated, deviceControls, connected,
                   deviceOrientation>>

\* requestOrientationPermission() up to its await, run by a button click
requestOrientationPermission ==
    /\ variant # "part_001"
    /\ buttonListener
    /\ clicks < MaxClicks
    /\ clicks' = clicks + 1
    /\ lastAction' = "click"
    /\ CASE platform = "explicit" ->
              /\ pending' = pending + 1
              /\ lastAlerts' = 0
              /\ UNCHANGED <<orientVars, controlsEnabled, alerts, logVars>>
         [] platform = "absent" /\ variant = "ThreeScene" ->
              \* typeof DeviceOrientationEvent.requestPermission throws a
              \* ReferenceError outside the try block
              /\ unhandledRejections' = unhandledRejections + 1
              /\ lastAlerts' = 0
              /\ UNCHANGED <<pending, orientVars, controlsEnabled, alerts,
                             consoleErrors>>
         [] platform = "implicit" /\ variant = "ThreeScene" ->
              /\ enableDeviceOrientationControls
              /\ UNCHANGED <<pending, orientationListener, logVars>>
         [] OTHER ->
              /\ addOrientationListener
              /\ UNCHANGED <<pending, logVars>>
    /\ UNCHANGED <<platformVars, media, sphericalDelta, cameraRotation, loopVars,
                   audioVars, teardownVars, pureVars>>

\* the continuation of requestOrientationPermission() after the await
permissionResponse(r) ==
    /\ pending > 0
    /\ pending' = pending - 1
    /\ lastAction' = r
    /\ CASE r = "granted" /\ variant = "ThreeScene" ->
              /\ enableDeviceOrientationControls
              /\ UNCHANGED <<orientationListener, logVars>>
         [] r = "granted" /\ variant # "ThreeScene" ->
              /\ addOrientationListener
              /\ UNCHANGED logVars
         [] r = "denied" ->
              /\ alerts' = IF variant = "part_001" THEN alerts ELSE alerts + 1
              /\ lastAlerts' = IF variant = "part_001" THEN 0 ELSE 1
              /\ UNCHANGED <<orientVars, controlsEnabled, logVars>>
         [] r = "reject" ->
              /\ consoleErrors' = consoleErrors + 1
              /\ lastAlerts' = 0
              /\ UNCHANGED <<orientVars, controlsEnabled, alerts,
                             unhandledRejections>>
    /\ UNCHANGED <<platformVars, media, clicks, sphericalDelta, cameraRotation,
                   loopVars, audioVars, teardownVars, pureVars>>

\* a pointer drag on the canvas, handled by OrbitControls
pointerDrag ==
    /\ controlsDisposeCalls = 0
    /\ domAttached
    /\ sphericalDelta' = IF controlsEnabled THEN 2 ELSE sphericalDelta
    /\ lastAlerts' = 0
    /\ lastAction' = "drag"
    /\ UNCHANGED <<platformVars, media, clicks, pending, orientVars, controlsEnabled,
                   cameraRotation, alerts, logVars, loopVars, audioVars,
                   teardownVars, pureVars>>

\* a deviceorientation event reaching a registered listener
handleOrientation(s) ==
    /\ platform # "absent"
    /\ connected # {} \/ orientationListener
    /\ deviceOrientation' =
          CASE variant = "ThreeScene" ->
                 IF deviceControls \in connected THEN <<s>>
                                                 ELSE deviceOrientation
            [] variant = "part_000" -> <<s>>
            [] OTHER -> deviceOrientation
    /\ cameraRotation' =
          IF variant = "part_001"
               /\ s.alpha # <<>> /\ s.beta # <<>> /\ s.gamma # <<>>
            THEN <<s.beta[1] - 90, s.gamma[1], s.alpha[1]>>
            ELSE cameraRotation
    /\ lastAlerts' = 0
    /\ lastAction' = "orientation"
    /\ UNCHANGED <<platformVars, media, clicks, pending, deviceControls, nCreated,
                   connected, orientationListener, controlsEnabled,
                   sphericalDelta, alerts, logVars, loopVars, audioVars,
                   teardownVars, pureVars>>

(* ------------------------------- teardown ------------------------------ *)
\* the function the effect returns
cleanup ==
    /\ cleanupCalls < MaxCleanupCalls
    /\ cleanupCalls' = cleanupCalls + 1
    /\ resizeListener' = FALSE
    \* removeEventListener('deviceorientation', handleOrientation) names the
    \* bubble-phase listener; the one registered with capture = true stays
    /\ orientationListener' = orientationListener
    /\ IF variant = "ThreeScene" /\ deviceControls # 0
         THEN /\ deviceDisposeCalls' = deviceDisposeCalls + 1
              /\ connected' = connected \ {deviceControls}
         ELSE UNCHANGED <<deviceDisposeCalls, connected>>
    /\ controlsDisposeCalls' =
          IF variant # "part_001" THEN controlsDisposeCalls + 1
                                  ELSE controlsDisposeCalls
    /\ removeChildCalls' = removeChildCalls + 1
    /\ IF domAttached
         THEN /\ domAttached' = FALSE
              /\ audioCloseCalls' = audioCloseCalls + 1
              /\ buttonListener' = FALSE
              /\ cleanupThrew' = cleanupThrew
         ELSE \* removeChild throws NotFoundError; the rest does not run
              /\ cleanupThrew' = TRUE
              /\ UNCHANGED <<domAttached, audioCloseCalls, buttonListener>>
    /\ lastAlerts' = 0
    /\ lastAction' = "cleanup"
    /\ UNCHANGED <<platformVars, media, clicks, pending, deviceControls, nCreated,
                   deviceOrientation, controlsEnabled, sphericalDelta,
                   cameraRotation, alerts, logVars, loopVars, audioVars,
                   pureVars>>

Init ==
    /\ SceneInit
    /\ grid = NoGrid
    /\ shader = NoShader

Tick == \E fd \in SceneSnapshots : animate(fd)
Respond == \E r \in Responses : permissionResponse(r)
Sensor == \E s \in Samples : handleOrientation(s)

Next ==
    \/ Tick
    \/ requestOrientationPermission
    \/ Respond
    \/ pointerDrag
    \/ Sensor
    \/ cleanup

Spec == Init /\ [][Next]_vars

(* ------------------- the render loop over every snapshot --------------- *)
TickAll == \E fd \in AllSnapshots : animate(fd)

SpecBass == Init /\ [][TickAll]_vars

(* ------------------------ the grid fill loop alone --------------------- *)
GridInit ==
    /\ SceneInit
    /\ platform = "implicit"
    /\ shader = NoShader
    /\ \E half \in 1..MaxHalf : grid = NewGrid(variant, half)

\* one iteration of the inner loop body, with the loop headers' increments
fillCell ==
    /\ grid.i < grid.side
    /\ LET k == grid.index
           \* width = half * (videoWidth / videoHeight), both 480; height = half
           width == grid.half
           height == grid.half
           p1 == Store(grid.positions, k * 3,
                       (grid.i - grid.half) * (width \div grid.half))
           p2 == Store(p1, k * 3 + 1,
                       (grid.j - grid.half) * (height \div grid.half))
           p3 == Store(p2, k * 3 + 2, 0)
           u1 == Store(grid.uvs, k * 2, <<grid.i, grid.side>>)
           u2 == Store(u1, k * 2 + 1, <<grid.j, grid.side>>)
       IN  grid' = [grid EXCEPT
                      !.positions = p3,
                      !.uvs = u2,
                      !.index = k + 1,
                      !.j = IF grid.j + 1 < grid.side THEN grid.j + 1 ELSE 0,
                      !.i = IF grid.j + 1 < grid.side THEN grid.i
                                                      ELSE grid.i + 1]
    /\ UNCHANGED <<sceneVars, shader>>

SpecGrid == GridInit /\ [][fillCell]_vars

(* ---------------------- the vertex shader in the loop ------------------ *)
ShaderSnapshots == SceneSnapshots \cup {<<255, 255, 255>>}
Channels == 0..ChannelSteps

\* the vertex stage for one point whose texel has the colour (r, g, b),
\* channels in units of 1 / ChannelSteps
vertexShader(r, g, b) ==
    /\ shader' = [done |-> TRUE, r |-> r, g |-> g, b |-> b,
                  bass |-> uniformBass,
                  displacement |->
                      displacement(luminance(r, g, b), uniformBass)]
    /\ UNCHANGED <<sceneVars, grid>>

TickShader == \E fd \in ShaderSnapshots : animate(fd)
\* the texels drawn: any red and green level, blue off or full
Draw == \E r \in Channels, g \in Channels, b \in {0, ChannelSteps} :
            vertexShader(r, g, b)

NextShader ==
    \/ TickShader
    \/ Draw

ShaderInit ==
    /\ Init
    /\ platform = "implicit"

SpecShader == ShaderInit /\ [][NextShader]_vars

(* ================================ claims ================================ *)
Range(f) == {f[x] : x \in DOMAIN f}

\* orientation drive has been switched on: a controller exists (ThreeScene)
\* or handleOrientation was registered (part_000, part_001)
OrientationDriven == deviceControls # 0 \/ orientationListener

\* C1: once a request is answered 'granted' (or the platform needs no
\* explicit grant), every later tick before teardown advances the camera by
\* the orientation driver and never calls the manual-orbit update.
C1_OnlyOrientationAfterGrant ==
    (platform # "absent" /\ OrientationDriven /\ cleanupCalls = 0
       /\ lastAction = "animate")
    => "controls.update" \notin Range(tickTrace)

\* C2: Starting in Manual, a denied permission response leaves the camera
\* Manual (no orientation driver, manual orbit enabled) and issues exactly
\* one alert.
C2_DeniedStaysManualOneAlert ==
    [][(~OrientationDriven /\ permissionResponse("denied"))
         => (/\ ~OrientationDriven'
             /\ controlsEnabled'
             /\ alerts' = alerts + 1)]_vars

\* C3: when the permission request rejects, or the orientation event
\* interface does not exist, the error is caught, the camera stays Manual,
\* the loop stays scheduled and the user gets a notification.
C3_FailureCaughtAndNotified ==
    [][(/\ ~OrientationDriven
        /\ \/ permissionResponse("reject")
           \/ platform = "absent" /\ requestOrientationPermission)
         => (/\ ~OrientationDriven'
             /\ controlsEnabled'
             /\ rafScheduled'
             /\ unhandledRejections' = unhandledRejections
             /\ alerts' = alerts + 1)]_vars

\* C4: after the cleanup function has run, no further tick is executed.
C4_NoTickAfterCleanup == lastAction = "animate" => cleanupCalls = 0

\* C5: after cleanup has run, no orientation-event subscription or
\* orientation controller created during the session is still registered.
C5_NoSensorSubscriptionLeak ==
    cleanupCalls > 0 => (connected = {} /\ ~orientationListener)

\* C6: a second invocation of cleanup does not throw, and canvas removal,
\* audio context close, controls disposal happen at most once each.
C6_CleanupIdempotent ==
    cleanupCalls >= 2 =>
        /\ ~cleanupThrew
        /\ removeChildCalls <= 1
        /\ audioCloseCalls <= 1
        /\ controlsDisposeCalls <= 1
        /\ deviceDisposeCalls <= 1

\* C7: once orientation access has been granted, activating the trigger
\* again issues no permission request, creates no controller or
\* subscription and leaves the camera state unchanged.
C7_TriggerNoOpOnceGranted ==
    [][(platform # "absent" /\ OrientationDriven
          /\ requestOrientationPermission)
         => UNCHANGED <<pending, orientVars, controlsEnabled>>]_vars

\* C8: when the fill loop has finished, the geometry holds exactly N*N
\* positions and N*N UV pairs, all of them written, and for every k the
\* position and the UV at k come from the cell (i, j) with k = i*N + j.
C8_GridCountAndCorrespondence ==
    (grid.side > 0 /\ grid.i = grid.side) =>
        /\ grid.particleCount = grid.side * grid.side
        /\ grid.index = grid.particleCount
        /\ DOMAIN grid.positions = 0..(grid.side * grid.side * 3 - 1)
        /\ DOMAIN grid.uvs = 0..(grid.side * grid.side * 2 - 1)
        /\ \A k \in 0..(grid.particleCount - 1) :
              LET i == k \div grid.side
                  j == k % grid.side
              IN  /\ grid.positions[k * 3] = i - grid.half
                  /\ grid.positions[k * 3 + 1] = j - grid.half
                  /\ grid.positions[k * 3 + 2] = 0
                  /\ FracEq(grid.uvs[k * 2], <<i, grid.side>>)
                  /\ FracEq(grid.uvs[k * 2 + 1], <<j, grid.side>>)

\* C9: after every tick the bass strength (and the uniform) equals
\* (bin0 + bin1 + bin2) / 3 / 155 of that tick's snapshot, whatever the
\* earlier frames were; bins 90,120,60 give 270/465.
C9_BassIsSnapshotMean ==
    lastAction = "animate" =>
        /\ FracEq(bassStrength,
                  <<frequencyData[1] + frequencyData[2] + frequencyData[3],
                    3 * 155>>)
        /\ FracEq(uniformBass, bassStrength)
        /\ frequencyData = <<90, 120, 60>>
               => FracEq(bassStrength, <<270, 465>>)

\* a tick on the snapshot 90,120,60 that followed frames with other values
C9_Witness ==
    /\ lastAction = "animate"
    /\ frequencyData = <<90, 120, 60>>
    /\ FracEq(bassStrength, <<270, 465>>)

\* the luminance of the vertex the shader last ran on
ShaderLum == <<shader.r + shader.g + shader.b, 3 * ChannelSteps>>

\* C10: the displacement is exactly 0 for every luminance <= 0.1, and above
\* 0.1 it equals luminance * (100 + bassStrength * 200), which grows
\* strictly with luminance and strictly with bassStrength.
C10_DisplacementThresholdAndMonotone ==
    shader.done =>
        /\ ~FracLt(<<1, 10>>, ShaderLum) => shader.displacement[1] = 0
        /\ FracLt(<<1, 10>>, ShaderLum) =>
             /\ shader.displacement[1] * (3 * ChannelSteps * shader.bass[2])
                  = (shader.r + shader.g + shader.b)
                      * (100 * shader.bass[2] + 200 * shader.bass[1])
                      * shader.displacement[2]
             /\ \A s \in 0..(3 * ChannelSteps) :
                   FracLt(ShaderLum, <<s, 3 * ChannelSteps>>) =>
                      FracLt(shader.displacement,
                             displacement(<<s, 3 * ChannelSteps>>, shader.bass))
             /\ \A fd \in AllSnapshots :
                   FracLt(shader.bass, detectBass(fd)) =>
                      FracLt(shader.displacement,
                             displacement(ShaderLum, detectBass(fd)))

\* a vertex whose luminance is exactly 0.1, drawn while bass is sounding
C10_Witness ==
    /\ shader.done
    /\ FracEq(ShaderLum, <<1, 10>>)
    /\ shader.bass[1] > 0
    /\ shader.displacement[1] = 0

\* the names the camera step of a tick can have
CameraSteps == {"controls.update", "deviceControls.update", "camera.quaternion"}
\* the place of a step in a tick
StepAt(t, name) == CHOOSE n \in DOMAIN t : t[n] = name

PermissionPending == pending > 0 /\ ~OrientationDriven

\* C12: while a permission request is pending the render loop is never
\* held back: in every such state a tick can run (the browser runs queued
\* animation frames, so the loop progresses whether or not the platform
\* ever answers), and every tick that occurs in that state samples bass,
\* writes the uniform, advances the Manual camera, renders and stays
\* scheduled.
C12_LoopRunsWhilePending ==
    PermissionPending =>
        /\ ENABLED Tick
        /\ rafScheduled
        /\ lastAction = "animate" =>
              /\ {"detectBass", "uniform", "controls.update",
                  "composer.render"} \subseteq Range(tickTrace)
              /\ uniformBass = detectBass(frequencyData)
              /\ cameraRotation = <<>>

\* a tick on a sounding snapshot while the request is unanswered
C12_Witness ==
    /\ PermissionPending
    /\ lastAction = "animate"
    /\ frequencyData = <<90, 120, 60>>
    /\ "composer.render" \in Range(tickTrace)

\* C13: a start of playback blocked by the autoplay policy is non-fatal
\* (the loop stays scheduled), and once a user interaction (a click on the
\* button, a drag on the canvas) has been handled, playback has been
\* attempted again.
C13_PlayRetriedOnInteraction ==
    media.blocked =>
        /\ rafScheduled
        /\ lastAction \in {"click", "drag"} =>
              (media.playCalls > 2 \/ media.playing)

====
